---- MODULE Spec2Model ----
(***************************************************************************)
(* The quiz-buzzer session server: src/backend/server.ts and src/server.js *)
(* (the two implementations of the same Socket.IO handlers).               *)
(*                                                                         *)
(* State: the room registry `rooms`, the connection directory `players`,   *)
(* the Socket.IO room subscriptions, the live connections and the clock.   *)
(* Every handler runs to completion (single-threaded event loop), so each  *)
(* handler is one action.  A handler is an operator from the state and its *)
(* payload to a Result: the state it leaves and the events it emits, in    *)
(* the order of the emit calls.                                            *)
(***************************************************************************)
EXTENDS Integers, Sequences, FiniteSets, TLC

VARIABLES
  impl,       \* which implementation runs: "ts" (backend/server.ts) or "js" (server.js)
  rooms,      \* const rooms = new Map(): code -> Room, the domain is the set of live codes
  players,    \* const players = new Map(): socket id -> {player, roomCode}, in insertion order
  subs,       \* Socket.IO adapter: socket id -> set of room codes it has join()ed
  connected,  \* the socket ids of the live connections
  nextSock,   \* the id the next connection gets (ids are never reused)
  now,        \* the clock (Date.now()), in hours
  steps,      \* how many handlers and timer events have run
  call,       \* the createRoom call in progress (its arguments and its local roomCode)
  wire        \* what the connections have received: the room-state events, in order

vars == <<impl, rooms, players, subs, connected, nextSock, now, steps, call, wire>>

(***************************************************************************)
(* Bounds of the model and the payload domains.                            *)
(***************************************************************************)
MaxSockets == 2
MaxTime == 3
MaxSteps == 6
MaxRoster == 3
MaxAssignTeams == 3
MaxDraws == 3
MaxBroadcastSteps == 4

Impls == {"ts", "js"}
Codes == {"A", "B"}
Names == {"n1", "n2"}
HostNames == {"n1"}
TeamCounts == {0, 1, 2}
SocketIds == 1..MaxSockets

\* the codes that the successive calls of generateRoomCode in one createRoom return
Draws == UNION {[1..n -> Codes] : n \in 1..MaxDraws}

\* 2 * 60 * 60 * 1000 ms and 60 * 60 * 1000 ms, in hours
TTL == 2
SweepInterval == 1

(***************************************************************************)
(* Values.                                                                 *)
(***************************************************************************)
\* firstBuzzer: BuzzerEvent | null
Null == [playerId |-> 0, playerName |-> "", team |-> 0, timestamp |-> 0]

\* no code: createRoom's loop has not left yet
NoCode == ""

\* no createRoom call is in progress
Idle == [running |-> FALSE, s |-> 0, teamCount |-> 0, hostName |-> "", roomCode |-> NoCode]

\* nothing received yet; `on` says whether the receptions are recorded, `log` is
\* the server's side: per code, the states its room went through
Wire(on) == [on |-> on, inbox |-> [s \in SocketIds |-> <<>>], log |-> [c \in Codes |-> <<>>]]

\* Math.min() of no arguments
Infinity == 1000000

Player(id, name, team, isHost, socketId) ==
  [id |-> id, name |-> name, team |-> team, isHost |-> isHost, socketId |-> socketId]

Room(code, teamCount, hostName, createdAt) ==
  [code |-> code, teamCount |-> teamCount, hostName |-> hostName, players |-> <<>>,
   buzzerPressed |-> FALSE, firstBuzzer |-> Null, buzzerOrder |-> <<>>,
   createdAt |-> createdAt]

BuzzerEvent(player, timestamp) ==
  [playerId |-> player.id, playerName |-> player.name, team |-> player.team,
   timestamp |-> timestamp]

\* The {player, roomCode} value of the directory.  The player is the roster's
\* object; its only mutable field, socketId, is never read through the
\* directory, so the entry carries the fields that are fixed at construction.
PlayerData(player, roomCode) ==
  [player |-> [id |-> player.id, name |-> player.name, team |-> player.team,
               isHost |-> player.isHost],
   roomCode |-> roomCode]

(***************************************************************************)
(* Array and Map helpers.                                                  *)
(***************************************************************************)
Range(seq) == {seq[i] : i \in DOMAIN seq}

SetMin(S) == CHOOSE x \in S : \A y \in S : x <= y

\* Math.min(...arr)
MathMin(arr) == IF arr = <<>> THEN Infinity ELSE SetMin(Range(arr))

\* arr.indexOf(v), 0-based, -1 when absent
IndexOf(arr, v) ==
  IF \E i \in DOMAIN arr : arr[i] = v
  THEN SetMin({i \in DOMAIN arr : arr[i] = v}) - 1
  ELSE -1

\* arr.findIndex(pred) over the positions in `hits`, 1-based, 0 when absent
FirstOf(hits) == IF hits = {} THEN 0 ELSE SetMin(hits)

RemoveAt(seq, i) == [j \in 1..(Len(seq) - 1) |-> IF j < i THEN seq[j] ELSE seq[j + 1]]

\* players.get(socketId): the position of the entry, 0 when absent
DirIndex(dir, socketId) == FirstOf({i \in DOMAIN dir : dir[i].socketId = socketId})

DirHas(dir, socketId) == DirIndex(dir, socketId) # 0

DirGet(dir, socketId) == dir[DirIndex(dir, socketId)]

\* players.set(socketId, data): an existing key keeps its position
DirSet(dir, socketId, data) ==
  LET entry == [socketId |-> socketId, player |-> data.player, roomCode |-> data.roomCode]
  IN IF DirHas(dir, socketId)
     THEN [dir EXCEPT ![DirIndex(dir, socketId)] = entry]
     ELSE Append(dir, entry)

\* players.delete(socketId)
DirDelete(dir, socketId) ==
  IF DirHas(dir, socketId) THEN RemoveAt(dir, DirIndex(dir, socketId)) ELSE dir

\* rooms.set(code, room)
MapSet(map, key, value) == [k \in DOMAIN map \cup {key} |-> IF k = key THEN value ELSE map[k]]

\* rooms.delete(code)
MapDelete(map, key) == [k \in DOMAIN map \ {key} |-> map[k]]

(***************************************************************************)
(* Emitted events.                                                         *)
(***************************************************************************)
\* the sockets that io.to(roomCode) reaches
Subscribers(sub, live, roomCode) == {s \in live : roomCode \in sub[s]}

\* socket.emit(ev, data)
SocketEmit(socketId, ev, data) == [ev |-> ev, to |-> {socketId}, room |-> "", data |-> data]

\* io.to(roomCode).emit(ev, data)
RoomEmit(sub, live, roomCode, ev, data) ==
  [ev |-> ev, to |-> Subscribers(sub, live, roomCode), room |-> roomCode, data |-> data]

\* callback(response)
Callback(socketId, response) ==
  [ev |-> "callback", to |-> {socketId}, room |-> "", data |-> response]

(***************************************************************************)
(* Utility functions.                                                      *)
(***************************************************************************)
\* a slip: the last team is never counted (player.team < room.teamCount)
RECURSIVE CountTeams_offByOne(_, _, _)
CountTeams_offByOne(roster, teamCount, teamCounts) ==
  IF roster = <<>>
  THEN teamCounts
  ELSE LET player == Head(roster)
       IN CountTeams_offByOne(Tail(roster), teamCount,
                              IF player.team > 0 /\ player.team < teamCount
                              THEN [teamCounts EXCEPT ![player.team] = @ + 1]
                              ELSE teamCounts)

\* room.players.forEach(player => { if (in range) teamCounts[player.team - 1]++ })
\* teamCounts[k] here is teamCounts[k - 1] of the source
RECURSIVE CountTeams(_, _, _)
CountTeams(roster, teamCount, teamCounts) ==
  IF roster = <<>>
  THEN teamCounts
  ELSE LET player == Head(roster)
       IN CountTeams(Tail(roster), teamCount,
                     IF player.team > 0 /\ player.team <= teamCount
                     THEN [teamCounts EXCEPT ![player.team] = @ + 1]
                     ELSE teamCounts)

\* a slip: the last least-loaded team instead of the first (lastIndexOf)
assignPlayerToTeam_lastMin(room) ==
  LET teamCounts == CountTeams(room.players, room.teamCount,
                               [k \in 1..room.teamCount |-> 0])
      minCount == MathMin(teamCounts)
      hits == {k \in DOMAIN teamCounts : teamCounts[k] = minCount}
  IN IF hits = {} THEN 0 ELSE CHOOSE k \in hits : \A j \in hits : j <= k

assignPlayerToTeam(room) ==
  LET teamCounts == CountTeams(room.players, room.teamCount,
                               [k \in 1..room.teamCount |-> 0])
      minCount == MathMin(teamCounts)
      teamIndex == IndexOf(teamCounts, minCount)
  IN teamIndex + 1

\* a slip: only the first player is compared (room.players[0]?.name === playerName)
FindByName_firstOnly(roster, playerName) ==
  IF roster # <<>> /\ roster[1].name = playerName THEN 1 ELSE 0

\* room.players.find((p) => p.name === playerName): the position, 0 when absent
FindByName(roster, playerName) ==
  FirstOf({i \in DOMAIN roster : roster[i].name = playerName})

\* room.players.find((p) => p.id === playerId): the position, 0 when absent
FindById(roster, playerId) ==
  FirstOf({i \in DOMAIN roster : roster[i].id = playerId})

\* a slip: the reconnect also takes the new connection's id as the player id
Rebind_newId(player, socketId) == [player EXCEPT !.socketId = socketId, !.id = socketId]

\* player.socketId = socket.id
Rebind(player, socketId) == [player EXCEPT !.socketId = socketId]

\* a slip: the host flag is taken as requested, without the empty-room fallback
NewPlayer_asRequested(room, socketId, playerName, isHost) ==
  Player(socketId, playerName, assignPlayerToTeam(room), isHost, socketId)

\* new Player(socket.id, playerName, team, isHost || room.players.length === 0, socket.id)
NewPlayer(room, socketId, playerName, isHost) ==
  Player(socketId, playerName, assignPlayerToTeam(room),
         isHost \/ Len(room.players) = 0, socketId)

\* a slip: only the player who buzzed first is locked out
PressAccepted_lockByFirst(map, roomCode, playerId) ==
  /\ roomCode \in DOMAIN map
  /\ map[roomCode].firstBuzzer.playerId # playerId
  /\ FindById(map[roomCode].players, playerId) # 0

\* a slip: the lock is not tested
PressAccepted_noLock(map, roomCode, playerId) ==
  /\ roomCode \in DOMAIN map
  /\ FindById(map[roomCode].players, playerId) # 0

\* if (!room || room.buzzerPressed) return; ... if (!player) return;
PressAccepted(map, roomCode, playerId) ==
  /\ roomCode \in DOMAIN map
  /\ ~map[roomCode].buzzerPressed
  /\ FindById(map[roomCode].players, playerId) # 0

\* room.buzzerPressed = true; room.firstBuzzer = buzzerEvent; room.buzzerOrder.push(buzzerEvent)
Buzz(room, buzzerEvent) ==
  [room EXCEPT !.buzzerPressed = TRUE,
               !.firstBuzzer = buzzerEvent,
               !.buzzerOrder = Append(@, buzzerEvent)]

\* a slip: the lock is not released
ResetRoom_keepLock(room) ==
  [room EXCEPT !.firstBuzzer = Null, !.buzzerOrder = <<>>]

\* a slip: the ledger is not cleared
ResetRoom_keepOrder(room) ==
  [room EXCEPT !.buzzerPressed = FALSE, !.firstBuzzer = Null]

\* room.buzzerPressed = false; room.firstBuzzer = null; room.buzzerOrder = []
ResetRoom(room) ==
  [room EXCEPT !.buzzerPressed = FALSE, !.firstBuzzer = Null, !.buzzerOrder = <<>>]

\* playerData?.player.isHost
IsHostConn(dir, socketId) == DirHas(dir, socketId) /\ DirGet(dir, socketId).player.isHost

\* reset-buzzer: the guard of the error branch
ResetRefused(dir, map, socketId, roomCode) ==
  roomCode \notin DOMAIN map \/ ~IsHostConn(dir, socketId)

\* a slip: a connection without a player is let through
DeleteRefused_knownOnly(dir, socketId) ==
  DirHas(dir, socketId) /\ ~DirGet(dir, socketId).player.isHost

\* delete-room: the guard of the error branch
DeleteRefused(dir, socketId) == ~IsHostConn(dir, socketId)

\* room.players.forEach(player => { entry = [...players.entries()].find(
\*   ([, data]) => data.player.id === player.id); if (entry) players.delete(entry[0]) })
RECURSIVE RemoveAssociations(_, _)
RemoveAssociations(dir, roster) ==
  IF roster = <<>>
  THEN dir
  ELSE LET i == FirstOf({j \in DOMAIN dir : dir[j].player.id = Head(roster).id})
       IN RemoveAssociations(IF i = 0 THEN dir ELSE RemoveAt(dir, i), Tail(roster))

\* a slip: the roster is not looked at
Stale_byAge(room, time) == time - room.createdAt > TTL

\* now - room.createdAt > 2h && room.players.length === 0
Stale(room, time) == time - room.createdAt > TTL /\ Len(room.players) = 0

(***************************************************************************)
(* The handlers, as operators on the current state.                        *)
(***************************************************************************)
\* a slip: the first code drawn is taken, in use or not
createRoomCode_firstDraw(map, draws) == Head(draws)

\* let roomCode = generateRoomCode(); while (rooms.has(roomCode)) roomCode = generateRoomCode()
\* over the codes drawn: the first one not in use, NoCode while all of them are
RECURSIVE createRoomCode(_, _)
createRoomCode(map, draws) ==
  IF draws = <<>>
  THEN NoCode
  ELSE IF Head(draws) \notin DOMAIN map
  THEN Head(draws)
  ELSE createRoomCode(map, Tail(draws))

\* the codes a createRoom call draws: codes in use, then one that is not
Drawn(map, draws) ==
  /\ draws[Len(draws)] \notin DOMAIN map
  /\ \A i \in 1..(Len(draws) - 1) : draws[i] \in DOMAIN map

\* what a handler leaves behind: the two maps, the subscriptions, the emits
Result(map, dir, sub, emitted) ==
  [rooms |-> map, players |-> dir, subs |-> sub, out |-> emitted]

\* socket.on("create-room"); roomCode is the code createRoom's loop ends up with
createRoomHandler(s, teamCount, hostName, roomCode) ==
  Result(MapSet(rooms, roomCode, Room(roomCode, teamCount, hostName, now)),
         players, subs,
         <<Callback(s, [success |-> TRUE, roomCode |-> roomCode])>>)

\* a slip: a join under an unknown code opens the room before it reports the error
joinRoomHandler_opensRoom(s, roomCode, playerName, isHost) ==
  IF roomCode \notin DOMAIN rooms
  THEN Result(MapSet(rooms, roomCode, Room(roomCode, 1, playerName, now)), players, subs,
              <<SocketEmit(s, "error", "Room not found")>>)
  ELSE LET room == rooms[roomCode]
           found == FindByName(room.players, playerName)
           player == IF found = 0
                     THEN NewPlayer(room, s, playerName, isHost)
                     ELSE Rebind(room.players[found], s)
           roster == IF found = 0
                     THEN Append(room.players, player)
                     ELSE [room.players EXCEPT ![found] = player]
           joined == [room EXCEPT !.players = roster]
           subs2 == [subs EXCEPT ![s] = @ \cup {roomCode}]
       IN Result([rooms EXCEPT ![roomCode] = joined],
                 DirSet(players, s, PlayerData(player, roomCode)),
                 subs2,
                 <<SocketEmit(s, "player-joined", player),
                   RoomEmit(subs2, connected, roomCode, "room-state", joined)>>)

\* socket.on("join-room")
joinRoomHandler(s, roomCode, playerName, isHost) ==
  IF roomCode \notin DOMAIN rooms
  THEN Result(rooms, players, subs, <<SocketEmit(s, "error", "Room not found")>>)
  ELSE LET room == rooms[roomCode]
           found == FindByName(room.players, playerName)
           player == IF found = 0
                     THEN NewPlayer(room, s, playerName, isHost)
                     ELSE Rebind(room.players[found], s)
           roster == IF found = 0
                     THEN Append(room.players, player)
                     ELSE [room.players EXCEPT ![found] = player]
           joined == [room EXCEPT !.players = roster]
           subs2 == [subs EXCEPT ![s] = @ \cup {roomCode}]
       IN Result([rooms EXCEPT ![roomCode] = joined],
                 DirSet(players, s, PlayerData(player, roomCode)),
                 subs2,
                 <<SocketEmit(s, "player-joined", player),
                   RoomEmit(subs2, connected, roomCode, "room-state", joined)>>)

\* a slip: a press that is not accepted is answered with an error event
pressBuzzerHandler_reportsLate(s, roomCode, playerId) ==
  IF PressAccepted(rooms, roomCode, playerId)
  THEN LET room == rooms[roomCode]
           player == room.players[FindById(room.players, playerId)]
           buzzerEvent == BuzzerEvent(player, now)
           buzzed == Buzz(room, buzzerEvent)
           pressed == RoomEmit(subs, connected, roomCode, "buzzer-pressed", buzzerEvent)
           state == RoomEmit(subs, connected, roomCode, "room-state", buzzed)
       IN Result([rooms EXCEPT ![roomCode] = buzzed], players, subs,
                 IF impl = "ts" THEN <<pressed, state>> ELSE <<state, pressed>>)
  ELSE Result(rooms, players, subs, <<SocketEmit(s, "error", "Too late")>>)

\* socket.on("press-buzzer") of the implementation `server`; the two
\* implementations emit in opposite orders
pressBuzzerOn(server, s, roomCode, playerId) ==
  IF PressAccepted(rooms, roomCode, playerId)
  THEN LET room == rooms[roomCode]
           player == room.players[FindById(room.players, playerId)]
           buzzerEvent == BuzzerEvent(player, now)
           buzzed == Buzz(room, buzzerEvent)
           pressed == RoomEmit(subs, connected, roomCode, "buzzer-pressed", buzzerEvent)
           state == RoomEmit(subs, connected, roomCode, "room-state", buzzed)
       IN Result([rooms EXCEPT ![roomCode] = buzzed], players, subs,
                 IF server = "ts" THEN <<pressed, state>> ELSE <<state, pressed>>)
  ELSE Result(rooms, players, subs, <<>>)

\* socket.on("press-buzzer") of the implementation that runs
pressBuzzerHandler(s, roomCode, playerId) == pressBuzzerOn(impl, s, roomCode, playerId)

\* a slip: the reset is broadcast with socket.to(roomCode), which leaves the caller out
resetBuzzerHandler_toOthers(s, roomCode) ==
  IF impl = "js" /\ roomCode \notin DOMAIN rooms
  THEN Result(rooms, players, subs, <<>>)
  ELSE IF ResetRefused(players, rooms, s, roomCode)
  THEN Result(rooms, players, subs,
              <<SocketEmit(s, "error", "Only the host can reset the buzzer")>>)
  ELSE LET reset == ResetRoom(rooms[roomCode])
       IN Result([rooms EXCEPT ![roomCode] = reset], players, subs,
                 <<RoomEmit(subs, connected \ {s}, roomCode, "room-state", reset)>>)

\* socket.on("reset-buzzer") of the implementation `server`; server.js returns
\* silently when the room is absent
resetBuzzerOn(server, s, roomCode) ==
  IF server = "js" /\ roomCode \notin DOMAIN rooms
  THEN Result(rooms, players, subs, <<>>)
  ELSE IF ResetRefused(players, rooms, s, roomCode)
  THEN Result(rooms, players, subs,
              <<SocketEmit(s, "error", "Only the host can reset the buzzer")>>)
  ELSE LET reset == ResetRoom(rooms[roomCode])
       IN Result([rooms EXCEPT ![roomCode] = reset], players, subs,
                 <<RoomEmit(subs, connected, roomCode, "room-state", reset)>>)

\* socket.on("reset-buzzer") of the implementation that runs
resetBuzzerHandler(s, roomCode) == resetBuzzerOn(impl, s, roomCode)

\* socket.on("get-room")
getRoomHandler(s, roomCode) ==
  Result(rooms, players, subs,
         IF roomCode \notin DOMAIN rooms
         THEN <<Callback(s, [success |-> FALSE, error |-> "Room not found"])>>
         ELSE <<Callback(s, [success |-> TRUE, room |-> rooms[roomCode]])>>)

\* a slip: the disconnect also takes the connection's players off the rosters
disconnectHandler_leavesRoom(s) ==
  Result([c \in DOMAIN rooms |->
            [rooms[c] EXCEPT !.players = SelectSeq(@, LAMBDA p : p.socketId # s)]],
         DirDelete(players, s), [subs EXCEPT ![s] = {}], <<>>)

\* socket.on("disconnect"): the socket has left its rooms when the handler runs
disconnectHandler(s) ==
  LET subs2 == [subs EXCEPT ![s] = {}]
  IN IF DirHas(players, s)
     THEN LET roomCode == DirGet(players, s).roomCode
          IN Result(rooms, DirDelete(players, s), subs2,
                    IF roomCode \in DOMAIN rooms
                    THEN <<RoomEmit(subs2, connected \ {s}, roomCode, "room-state",
                                    rooms[roomCode])>>
                    ELSE <<>>)
     ELSE Result(rooms, players, subs2, <<>>)

\* socket.on("delete-room")
deleteRoomHandler(s, roomCode) ==
  IF DeleteRefused(players, s)
  THEN Result(rooms, players, subs,
              <<SocketEmit(s, "error", "Only the host can delete the room")>>)
  ELSE IF roomCode \in DOMAIN rooms
  THEN Result(MapDelete(rooms, roomCode),
              RemoveAssociations(players, rooms[roomCode].players),
              subs,
              <<RoomEmit(subs, connected, roomCode, "room-deleted", "")>>)
  ELSE Result(rooms, players, subs, <<>>)

\* setInterval(() => { for (const [code, room] of rooms) if (stale) rooms.delete(code) }, 1h)
reaperSweep ==
  [code \in {c \in DOMAIN rooms : ~Stale(rooms[c], now)} |-> rooms[code]]

(***************************************************************************)
(* Initial state: the process has started, nothing is connected.           *)
(***************************************************************************)
Init ==
  /\ impl \in Impls
  /\ rooms = <<>>
  /\ players = <<>>
  /\ subs = [s \in SocketIds |-> {}]
  /\ connected = {}
  /\ nextSock = 1
  /\ now = 0
  /\ steps = 0
  /\ call = Idle
  /\ wire = Wire(FALSE)

(***************************************************************************)
(* The actions: one per handler.                                           *)
(***************************************************************************)
\* the rooms that a handler leaves in another state than it found them
Mutated(result) == {c \in DOMAIN rooms \cap DOMAIN result.rooms : result.rooms[c] # rooms[c]}

\* Socket.IO delivers to every connection the events emitted to it in the order
\* of the emit calls; of these the room-state events are kept, each with the
\* number of states its room has gone through when it was emitted
Deliver(w, result) ==
  LET log2 == [c \in Codes |-> IF c \in Mutated(result)
                               THEN Append(w.log[c], result.rooms[c])
                               ELSE w.log[c]]
      received(s) == SelectSeq(result.out, LAMBDA e : e.ev = "room-state" /\ s \in e.to)
      stamped(e) == [room |-> e.room, data |-> e.data, seq |-> Len(log2[e.room])]
  IN [on |-> TRUE,
      inbox |-> [s \in SocketIds |->
                   w.inbox[s] \o [k \in 1..Len(received(s)) |-> stamped(received(s)[k])]],
      log |-> log2]

\* the state a handler leaves; every event counts against MaxSteps
Apply(result) ==
  /\ steps < MaxSteps
  /\ steps' = steps + 1
  /\ rooms' = result.rooms
  /\ players' = result.players
  /\ subs' = result.subs
  /\ wire' = IF wire.on THEN Deliver(wire, result) ELSE wire

\* io.on("connection", socket => ...)
Connect ==
  /\ nextSock <= MaxSockets
  /\ connected' = connected \cup {nextSock}
  /\ nextSock' = nextSock + 1
  /\ Apply(Result(rooms, players, subs, <<>>))
  /\ UNCHANGED <<impl, call, now>>

\* the handler returns once a drawn code has left createRoom's loop
CreateRoom(s, teamCount, hostName, draws) ==
  /\ s \in connected
  /\ Drawn(rooms, draws)
  /\ Apply(createRoomHandler(s, teamCount, hostName, createRoomCode(rooms, draws)))
  /\ UNCHANGED <<impl, call, connected, nextSock, now>>

JoinRoom(s, roomCode, playerName, isHost) ==
  /\ s \in connected
  /\ Apply(joinRoomHandler(s, roomCode, playerName, isHost))
  /\ UNCHANGED <<impl, call, connected, nextSock, now>>

PressBuzzer(s, roomCode, playerId) ==
  /\ s \in connected
  /\ Apply(pressBuzzerHandler(s, roomCode, playerId))
  /\ UNCHANGED <<impl, call, connected, nextSock, now>>

ResetBuzzer(s, roomCode) ==
  /\ s \in connected
  /\ Apply(resetBuzzerHandler(s, roomCode))
  /\ UNCHANGED <<impl, call, connected, nextSock, now>>

GetRoom(s, roomCode) ==
  /\ s \in connected
  /\ Apply(getRoomHandler(s, roomCode))
  /\ UNCHANGED <<impl, call, connected, nextSock, now>>

Disconnect(s) ==
  /\ s \in connected
  /\ connected' = connected \ {s}
  /\ Apply(disconnectHandler(s))
  /\ UNCHANGED <<impl, call, nextSock, now>>

DeleteRoom(s, roomCode) ==
  /\ s \in connected
  /\ Apply(deleteRoomHandler(s, roomCode))
  /\ UNCHANGED <<impl, call, connected, nextSock, now>>

ReaperSweep ==
  /\ now >= SweepInterval
  /\ Apply(Result(reaperSweep, players, subs, <<>>))
  /\ UNCHANGED <<impl, call, connected, nextSock, now>>

\* an hour passes
Tick ==
  /\ now < MaxTime
  /\ now' = now + 1
  /\ Apply(Result(rooms, players, subs, <<>>))
  /\ UNCHANGED <<impl, call, connected, nextSock>>

Next ==
  \/ Connect
  \/ \E s \in SocketIds, teamCount \in TeamCounts, hostName \in HostNames, draws \in Draws :
       CreateRoom(s, teamCount, hostName, draws)
  \/ \E s \in SocketIds, roomCode \in Codes, playerName \in Names, isHost \in BOOLEAN :
       JoinRoom(s, roomCode, playerName, isHost)
  \/ \E s \in SocketIds, roomCode \in Codes, playerId \in SocketIds :
       PressBuzzer(s, roomCode, playerId)
  \/ \E s \in SocketIds, roomCode \in Codes : ResetBuzzer(s, roomCode)
  \/ \E s \in SocketIds, roomCode \in Codes : GetRoom(s, roomCode)
  \/ \E s \in SocketIds : Disconnect(s)
  \/ \E s \in SocketIds, roomCode \in Codes : DeleteRoom(s, roomCode)
  \/ ReaperSweep
  \/ Tick

Spec == Init /\ [][Next]_vars

(***************************************************************************)
(* assignPlayerToTeam on arbitrary rosters: one room "A" whose roster was  *)
(* filled by connection 1 under the names of RosterNames, with any teams   *)
(* in 1..teamCount; the join-room handler then assigns the newcomers.      *)
(***************************************************************************)
RosterNames == <<"p1", "p2", "p3", "p4", "p5">>

InitAssign ==
  /\ impl \in Impls
  /\ \E teamCount \in 1..MaxAssignTeams, n \in 0..MaxRoster :
       \E teams \in [1..n -> 1..teamCount] :
         /\ rooms = [code \in {"A"} |->
                       [Room("A", teamCount, "n1", 0) EXCEPT
                          !.players = [i \in 1..n |->
                                         Player(1, RosterNames[i], teams[i], i = 1, 1)]]]
         /\ players = IF n = 0
                      THEN <<>>
                      ELSE <<[socketId |-> 1,
                              player |-> [id |-> 1, name |-> RosterNames[n],
                                          team |-> teams[n], isHost |-> n = 1],
                              roomCode |-> "A"]>>
         /\ subs = [s \in SocketIds |-> IF s = 1 /\ n > 0 THEN {"A"} ELSE {}]
  /\ connected = SocketIds
  /\ nextSock = MaxSockets + 1
  /\ now = 0
  /\ steps = 0
  /\ call = Idle
  /\ wire = Wire(FALSE)

\* the newcomers: join-room under a name the room does not have yet
NextAssign ==
  \E s \in SocketIds, playerName \in Names, isHost \in BOOLEAN :
    /\ FindByName(rooms["A"].players, playerName) = 0
    /\ JoinRoom(s, "A", playerName, isHost)

SpecAssign == InitAssign /\ [][NextAssign]_vars

(***************************************************************************)
(* The teams of one room as it fills up: room "A" is live and empty, with  *)
(* any teamCount of 1..MaxAssignTeams, and two connections join it, join   *)
(* again and disconnect.  Names are only compared with each other, so the  *)
(* newcomers take the names of RosterNames in order, up to MaxRoster + 1.  *)
(***************************************************************************)
TeamNames(roster) == {RosterNames[i] : i \in 1..SetMin({Len(roster), MaxRoster}) + 1}

InitTeams ==
  /\ impl \in Impls
  /\ \E teamCount \in 1..MaxAssignTeams :
       rooms = [code \in {"A"} |-> Room("A", teamCount, "n1", 0)]
  /\ players = <<>>
  /\ subs = [s \in SocketIds |-> {}]
  /\ connected = {1, 2}
  /\ nextSock = MaxSockets + 1
  /\ now = 0
  /\ steps = 0
  /\ call = Idle
  /\ wire = Wire(FALSE)

NextTeams ==
  \/ \E s \in SocketIds, playerName \in TeamNames(rooms["A"].players), isHost \in BOOLEAN :
       JoinRoom(s, "A", playerName, isHost)
  \/ \E s \in SocketIds : Disconnect(s)

SpecTeams == InitTeams /\ [][NextTeams]_vars

(***************************************************************************)
(* createRoom statement by statement: the call draws a code, draws again   *)
(* while the code is in use, then inserts the room and returns.  Nothing   *)
(* else runs while the call is in progress.  The registry is empty at      *)
(* first, or holds room "A" with its host, joined through connection 1.    *)
(***************************************************************************)
InitCreate ==
  /\ impl \in Impls
  /\ \E n \in 0..1 :
       /\ rooms = IF n = 0
                  THEN <<>>
                  ELSE [code \in {"A"} |->
                          [Room("A", 1, "n1", 0) EXCEPT
                             !.players = <<Player(1, "n1", 1, TRUE, 1)>>]]
       /\ players = IF n = 0
                    THEN <<>>
                    ELSE <<[socketId |-> 1,
                            player |-> [id |-> 1, name |-> "n1", team |-> 1, isHost |-> TRUE],
                            roomCode |-> "A"]>>
       /\ subs = [s \in SocketIds |-> IF s = 1 /\ n = 1 THEN {"A"} ELSE {}]
  /\ connected = SocketIds
  /\ nextSock = MaxSockets + 1
  /\ now = 0
  /\ steps = 0
  /\ call = Idle
  /\ wire = Wire(FALSE)

\* createRoom(teamCount, hostName) is entered: let roomCode = generateRoomCode()
CreateRoomCall(s, teamCount, hostName, code) ==
  /\ ~call.running
  /\ s \in connected
  /\ call' = [running |-> TRUE, s |-> s, teamCount |-> teamCount, hostName |-> hostName,
              roomCode |-> code]
  /\ UNCHANGED <<impl, rooms, players, subs, connected, nextSock, now, steps, wire>>

\* a slip: the loop does not draw again
CreateRoomRetry_sameCode(code) ==
  /\ call.running
  /\ call.roomCode \in DOMAIN rooms
  /\ UNCHANGED vars

\* while (rooms.has(roomCode)) roomCode = generateRoomCode()
CreateRoomRetry(code) ==
  /\ call.running
  /\ call.roomCode \in DOMAIN rooms
  /\ call' = [call EXCEPT !.roomCode = code]
  /\ UNCHANGED <<impl, rooms, players, subs, connected, nextSock, now, steps, wire>>

\* the loop is left: new Room, rooms.set, return room, callback({success: true, roomCode})
CreateRoomReturn ==
  /\ call.running
  /\ call.roomCode \notin DOMAIN rooms
  /\ LET r == createRoomHandler(call.s, call.teamCount, call.hostName, call.roomCode)
     IN /\ rooms' = r.rooms
        /\ players' = r.players
        /\ subs' = r.subs
  /\ call' = Idle
  /\ UNCHANGED <<impl, connected, nextSock, now, steps, wire>>

\* the generator returns a code that is not in use
CreateRoomRetryUnused == \E code \in Codes \ DOMAIN rooms : CreateRoomRetry(code)

NextCreate ==
  \/ \E s \in SocketIds, teamCount \in TeamCounts, hostName \in HostNames, code \in Codes :
       CreateRoomCall(s, teamCount, hostName, code)
  \/ \E code \in Codes : CreateRoomRetry(code)
  \/ CreateRoomReturn

\* the loop goes on, and the generator does not avoid the unused codes for ever
SpecCreate ==
  /\ InitCreate
  /\ [][NextCreate]_vars
  /\ WF_vars(CreateRoomReturn)
  /\ WF_vars(CreateRoomRetryUnused)

(***************************************************************************)
(* The broadcasts as the connections receive them: room "A" is live (code  *)
(* "B" is not), the connections are up, and what each connection receives  *)
(* is recorded over MaxBroadcastSteps events.                              *)
(***************************************************************************)
InitBroadcast ==
  /\ impl \in Impls
  /\ rooms = [code \in {"A"} |-> Room(code, 2, "n1", 0)]
  /\ players = <<>>
  /\ subs = [s \in SocketIds |-> {}]
  /\ connected = SocketIds
  /\ nextSock = MaxSockets + 1
  /\ now = 0
  /\ steps = 0
  /\ call = Idle
  /\ wire = Wire(TRUE)

NextBroadcast ==
  \/ \E s \in SocketIds, roomCode \in Codes, playerName \in Names, isHost \in BOOLEAN :
       steps < MaxBroadcastSteps /\ JoinRoom(s, roomCode, playerName, isHost)
  \/ \E s \in SocketIds, roomCode \in Codes, playerId \in SocketIds :
       steps < MaxBroadcastSteps /\ PressBuzzer(s, roomCode, playerId)
  \/ \E s \in SocketIds, roomCode \in Codes :
       steps < MaxBroadcastSteps /\ ResetBuzzer(s, roomCode)
  \/ \E s \in SocketIds :
       steps < MaxBroadcastSteps /\ Disconnect(s)

SpecBroadcast == InitBroadcast /\ [][NextBroadcast]_vars

(***************************************************************************)
(* The claims.                                                             *)
(***************************************************************************)
\* the connection's directory entry names a host
ConnIsHost(s) ==
  \E i \in DOMAIN players : players[i].socketId = s /\ players[i].player.isHost

\* the buzzer fields of a room
BuzzerState(room) == <<room.buzzerPressed, room.firstBuzzer, room.buzzerOrder>>

\* the positions of the roster that hold the name / the id
Named(room, playerName) == {i \in DOMAIN room.players : room.players[i].name = playerName}
WithId(room, playerId) == {i \in DOMAIN room.players : room.players[i].id = playerId}

\* an error event sent to the caller alone
ErrorTo(emitted, s) ==
  \E k \in DOMAIN emitted : emitted[k].ev = "error" /\ emitted[k].to = {s}

\* C1: in every live room buzzerPressed holds iff firstBuzzer is non-null iff
\* buzzerOrder is non-empty, and a non-null firstBuzzer is buzzerOrder[0].
C1_BuzzerStateConsistent ==
  \A c \in DOMAIN rooms :
    LET room == rooms[c]
    IN /\ room.buzzerPressed <=> room.firstBuzzer # Null
       /\ room.firstBuzzer # Null <=> room.buzzerOrder # <<>>
       /\ room.firstBuzzer # Null => room.buzzerOrder[1] = room.firstBuzzer

\* a room of two players that the second one has buzzed first
C1_Witness ==
  \E c \in DOMAIN rooms :
    /\ Len(rooms[c].players) = 2
    /\ rooms[c].buzzerPressed
    /\ rooms[c].firstBuzzer.playerName = rooms[c].players[2].name

\* C2 (press part): in an open round a press naming a player of the room is
\* accepted and records that player as firstBuzzer; any other press (room
\* locked, or no player of that id) leaves every room as it was.
C2_FirstPressAccepted ==
  \A s \in connected, c \in DOMAIN rooms, playerId \in SocketIds :
    LET room == rooms[c]
        after == pressBuzzerHandler(s, c, playerId).rooms
    IN IF ~room.buzzerPressed /\ WithId(room, playerId) # {}
       THEN /\ DOMAIN after = DOMAIN rooms
            /\ after[c].buzzerPressed
            /\ after[c].firstBuzzer.playerId = playerId
            /\ \E i \in WithId(room, playerId) :
                 /\ after[c].firstBuzzer.playerName = room.players[i].name
                 /\ after[c].firstBuzzer.team = room.players[i].team
            /\ after[c].buzzerOrder = <<after[c].firstBuzzer>>
       ELSE after = rooms

\* C2 (round part): a locked room keeps its buzzer fields over every step,
\* unless the room goes away or a host connection's reset clears them.
C2_LockHeldUntilReset ==
  \A c \in DOMAIN rooms :
    rooms[c].buzzerPressed =>
      \/ c \notin DOMAIN rooms'
      \/ BuzzerState(rooms'[c]) = BuzzerState(rooms[c])
      \/ /\ \E s \in connected : ConnIsHost(s)
         /\ rooms' = [rooms EXCEPT ![c] = [@ EXCEPT !.buzzerPressed = FALSE,
                                                    !.firstBuzzer = Null,
                                                    !.buzzerOrder = <<>>]]
         /\ UNCHANGED <<players, subs, connected>>

\* C2: per round exactly the first processed press that names a player of
\* the room is accepted, and later presses of the round change nothing.
C2_FirstPressWinsPerRound == []C2_FirstPressAccepted /\ [][C2_LockHeldUntilReset]_vars

\* a locked room of two players: the other player's press comes too late
C2_Witness ==
  \E c \in DOMAIN rooms :
    /\ rooms[c].buzzerPressed
    /\ \E i \in DOMAIN rooms[c].players :
         /\ rooms[c].players[i].id # rooms[c].firstBuzzer.playerId
         /\ rooms[c].players[i].socketId \in connected
         /\ pressBuzzerHandler(rooms[c].players[i].socketId, c,
                               rooms[c].players[i].id).rooms = rooms

\* C3: a reset-buzzer from a connection that is not a host (or has no player)
\* changes no room's buzzer fields and sends an error event to the caller.
C3_NonHostResetRefused ==
  \A s \in connected, c \in Codes :
    ~ConnIsHost(s) =>
      LET r == resetBuzzerHandler(s, c)
      IN /\ DOMAIN r.rooms = DOMAIN rooms
         /\ \A c2 \in DOMAIN rooms : BuzzerState(r.rooms[c2]) = BuzzerState(rooms[c2])
         /\ ErrorTo(r.out, s)

\* C4: a join-room under a name the room already has leaves the roster as it
\* was but for that player's socketId, which becomes the joining connection.
C4_RejoinKeepsIdentity ==
  \A s \in connected, c \in DOMAIN rooms, playerName \in Names, isHost \in BOOLEAN :
    LET room == rooms[c]
        after == joinRoomHandler(s, c, playerName, isHost).rooms
    IN Named(room, playerName) # {} =>
         /\ DOMAIN after = DOMAIN rooms
         /\ \A c2 \in DOMAIN rooms \ {c} : after[c2] = rooms[c2]
         /\ [after[c] EXCEPT !.players = room.players] = room
         /\ Len(after[c].players) = Len(room.players)
         /\ \A i \in DOMAIN room.players :
              after[c].players[i] =
                IF i \in Named(room, playerName)
                THEN [id |-> room.players[i].id, name |-> room.players[i].name,
                      team |-> room.players[i].team, isHost |-> room.players[i].isHost,
                      socketId |-> s]
                ELSE room.players[i]

\* a player who has rejoined from another connection than the one that created it
C4_Witness ==
  \E c \in DOMAIN rooms : \E i \in DOMAIN rooms[c].players :
    /\ rooms[c].players[i].socketId # rooms[c].players[i].id
    /\ ~rooms[c].players[i].isHost

\* how many players of the room are on the team
TeamSize(room, team) ==
  Cardinality({i \in DOMAIN room.players : room.players[i].team = team})

\* C5: for teamCount >= 1 assignPlayerToTeam returns the lowest-numbered team
\* of 1..teamCount among those with the fewest players, and the join that
\* uses it only appends the new player to the room.
C5_LeastLoadedTeam ==
  \A c \in DOMAIN rooms :
    LET room == rooms[c]
        team == assignPlayerToTeam(room)
    IN room.teamCount >= 1 =>
         /\ team \in 1..room.teamCount
         /\ \A other \in 1..room.teamCount : TeamSize(room, team) <= TeamSize(room, other)
         /\ \A lower \in 1..(team - 1) : TeamSize(room, lower) > TeamSize(room, team)
         /\ \A s \in connected, playerName \in Names, isHost \in BOOLEAN :
              Named(room, playerName) = {} =>
                joinRoomHandler(s, c, playerName, isHost).rooms[c] =
                  [room EXCEPT !.players =
                     Append(@, [id |-> s, name |-> playerName, team |-> team,
                                isHost |-> isHost \/ Len(room.players) = 0,
                                socketId |-> s])]

\* a newcomer was put on a team other than 1 of a roster with unequal teams
C5_Witness ==
  \E c \in DOMAIN rooms :
    LET room == rooms[c]
        n == Len(room.players)
    IN /\ n >= 3
       /\ room.players[n].name \in Names
       /\ room.players[n].team > 1
       /\ \E t \in 1..room.teamCount : TeamSize(room, t) > TeamSize(room, room.players[n].team)

\* C6: create-room with teamCount < 1 inserts no room and acks success:false.
C6_BadTeamCountRejected ==
  \A s \in connected, teamCount \in TeamCounts, hostName \in HostNames,
     roomCode \in Codes \ DOMAIN rooms :
    teamCount < 1 =>
      LET r == createRoomHandler(s, teamCount, hostName, roomCode)
      IN /\ r.rooms = rooms
         /\ Len(r.out) = 1
         /\ r.out[1].ev = "callback"
         /\ r.out[1].to = {s}
         /\ ~r.out[1].data.success

\* C7: every player of every live room has a team in 1..teamCount.
C7_TeamsInRange ==
  \A c \in DOMAIN rooms : \A i \in DOMAIN rooms[c].players :
    rooms[c].players[i].team \in 1..rooms[c].teamCount

\* C8: after a host's delete-room on a live code the room is gone and the
\* directory holds no association with that room code.
C8_DeleteRemovesAssociations ==
  \A s \in connected, c \in DOMAIN rooms :
    ConnIsHost(s) =>
      LET r == deleteRoomHandler(s, c)
      IN /\ c \notin DOMAIN r.rooms
         /\ \A i \in DOMAIN r.players : r.players[i].roomCode # c

\* C9: a delete-room from a connection that is not a host (or has no player)
\* leaves registry and directory as they were, emits no room-deleted and
\* sends an error event to the caller.
C9_NonHostDeleteRefused ==
  \A s \in connected, c \in Codes :
    ~ConnIsHost(s) =>
      LET r == deleteRoomHandler(s, c)
      IN /\ r.rooms = rooms
         /\ r.players = players
         /\ \A k \in DOMAIN r.out : r.out[k].ev # "room-deleted"
         /\ ErrorTo(r.out, s)

\* a connected non-host player of a live room with players asks to delete it
C9_Witness ==
  \E s \in connected, c \in DOMAIN rooms :
    /\ DirHas(players, s)
    /\ ~DirGet(players, s).player.isHost
    /\ DirGet(players, s).roomCode = c
    /\ Len(rooms[c].players) = 2
    /\ ErrorTo(deleteRoomHandler(s, c).out, s)
    /\ c \in DOMAIN deleteRoomHandler(s, c).rooms

\* C10: no two players of a room have the same name.
C10_UniqueNames ==
  \A c \in DOMAIN rooms : \A i, j \in DOMAIN rooms[c].players :
    i # j => rooms[c].players[i].name # rooms[c].players[j].name

\* two players of a room, one of whom has joined again under the same name
C10_Witness ==
  \E c \in DOMAIN rooms :
    /\ Len(rooms[c].players) = 2
    /\ rooms[c].players[2].socketId # rooms[c].players[2].id

\* C11: every live room with a non-empty roster has a player with isHost.
C11_HostInNonEmptyRoom ==
  \A c \in DOMAIN rooms :
    rooms[c].players # <<>> => \E i \in DOMAIN rooms[c].players : rooms[c].players[i].isHost

\* a room of two players whose only host is the first joiner
C11_Witness ==
  \E c \in DOMAIN rooms :
    /\ Len(rooms[c].players) = 2
    /\ rooms[c].players[1].isHost
    /\ ~rooms[c].players[2].isHost

\* C12: a disconnect leaves every room (roster and buzzer fields) as it was
\* and takes exactly the connection's own entry out of the directory, so that
\* every roster name is still found by join-room's lookup.
C12_DisconnectKeepsRosters ==
  \A s \in connected :
    LET r == disconnectHandler(s)
    IN /\ r.rooms = rooms
       /\ r.players = SelectSeq(players, LAMBDA e : e.socketId # s)
       /\ \A c \in DOMAIN r.rooms : \A i \in DOMAIN rooms[c].players :
            FindByName(r.rooms[c].players, rooms[c].players[i].name) = i

\* a room of two players one of whom has disconnected: the player is in the
\* roster, its connection is gone and has no entry, the other's entry remains
C12_Witness ==
  \E c \in DOMAIN rooms : \E i \in DOMAIN rooms[c].players :
    /\ Len(rooms[c].players) = 2
    /\ rooms[c].players[i].socketId \notin connected
    /\ ~DirHas(players, rooms[c].players[i].socketId)
    /\ players # <<>>

\* C13: a sweep keeps every room that has a player, removes an empty room
\* exactly when its age exceeds the two hours, and leaves the survivors as
\* they were.
C13_ReaperRemovesStaleEmptyOnly ==
  /\ DOMAIN reaperSweep \subseteq DOMAIN rooms
  /\ \A c \in DOMAIN rooms :
       /\ Len(rooms[c].players) >= 1 => c \in DOMAIN reaperSweep
       /\ Len(rooms[c].players) = 0 =>
            (c \notin DOMAIN reaperSweep <=> now - rooms[c].createdAt > 2)
       /\ c \in DOMAIN reaperSweep => reaperSweep[c] = rooms[c]

\* two empty rooms, one exactly two hours old and one older: the sweep
\* removes the older one only
C13_Witness ==
  \E c1, c2 \in DOMAIN rooms :
    /\ now - rooms[c1].createdAt = 2
    /\ now - rooms[c2].createdAt > 2
    /\ Len(rooms[c1].players) = 0
    /\ Len(rooms[c2].players) = 0
    /\ DOMAIN reaperSweep = DOMAIN rooms \ {c2}

\* C14: whatever codes generateRoomCode returns, the code createRoom's loop
\* ends up with is not the code of a live room; a create-room with such a
\* code leaves the rooms that were live as they were, registers the new room
\* under its own code and acks with it; and the codes of the live rooms are
\* pairwise distinct.
C14_FreshRoomCode ==
  /\ \A c1, c2 \in DOMAIN rooms : c1 # c2 => rooms[c1].code # rooms[c2].code
  /\ \A c \in DOMAIN rooms : rooms[c].code = c
  /\ \A draws \in Draws :
       createRoomCode(rooms, draws) \in {NoCode} \cup (Codes \ DOMAIN rooms)
  /\ \A s \in connected, teamCount \in TeamCounts, hostName \in HostNames,
        code \in Codes \ DOMAIN rooms :
       LET r == createRoomHandler(s, teamCount, hostName, code)
       IN /\ DOMAIN r.rooms = DOMAIN rooms \cup {code}
          /\ \A c \in DOMAIN rooms : r.rooms[c] = rooms[c]
          /\ r.rooms[code].code = code
          /\ r.out = <<[ev |-> "callback", to |-> {s}, room |-> "",
                        data |-> [success |-> TRUE, roomCode |-> code]]>>

\* two live rooms, the later one created while the other, which has a player,
\* was live
C14_Witness ==
  \E c1, c2 \in DOMAIN rooms :
    /\ Len(rooms[c1].players) >= 1
    /\ rooms[c2].createdAt > rooms[c1].createdAt
    /\ rooms[c2].players = <<>>

\* the positions of the events of one name in what a handler emits
Emitted(emitted, ev) == {k \in DOMAIN emitted : emitted[k].ev = ev}

\* C15: a press that is not accepted (room locked, code not live, no player of
\* that id in the room) leaves registry, directory and subscriptions as they
\* were and emits nothing; an accepted press emits one buzzer-pressed and one
\* room-state, both to the subscribers of the room, and nothing else.
C15_RejectedPressSilent ==
  \A s \in connected, c \in Codes, playerId \in SocketIds :
    LET r == pressBuzzerHandler(s, c, playerId)
        accepted == /\ c \in DOMAIN rooms
                    /\ ~rooms[c].buzzerPressed
                    /\ WithId(rooms[c], playerId) # {}
    IN IF accepted
       THEN /\ Len(r.out) = 2
            /\ Cardinality(Emitted(r.out, "buzzer-pressed")) = 1
            /\ Cardinality(Emitted(r.out, "room-state")) = 1
            /\ \A k \in DOMAIN r.out :
                 /\ r.out[k].room = c
                 /\ r.out[k].to = {t \in connected : c \in subs[t]}
       ELSE /\ r.rooms = rooms
            /\ r.players = players
            /\ r.subs = subs
            /\ r.out = <<>>

\* a locked room with two connected subscribers, one of them a player whose
\* press is not accepted and emits nothing
C15_Witness ==
  \E c \in DOMAIN rooms : \E i \in DOMAIN rooms[c].players :
    /\ rooms[c].buzzerPressed
    /\ Cardinality({t \in connected : c \in subs[t]}) = 2
    /\ rooms[c].players[i].socketId \in connected
    /\ pressBuzzerHandler(rooms[c].players[i].socketId, c, rooms[c].players[i].id).out = <<>>

\* C16: a host's reset-buzzer on a live room leaves it open with firstBuzzer
\* null and buzzerOrder empty and changes nothing else, whether the room was
\* open or locked; a reset of the room it leaves changes nothing more, and
\* the press of every player of the room is accepted in it.
C16_ResetIdempotent ==
  \A s \in connected, c \in DOMAIN rooms :
    ConnIsHost(s) =>
      LET r == resetBuzzerHandler(s, c)
      IN /\ r.rooms = [rooms EXCEPT ![c] = [@ EXCEPT !.buzzerPressed = FALSE,
                                                     !.firstBuzzer = Null,
                                                     !.buzzerOrder = <<>>]]
         /\ r.players = players
         /\ r.subs = subs
         /\ ResetRoom(r.rooms[c]) = r.rooms[c]
         /\ (~rooms[c].buzzerPressed /\ rooms[c].firstBuzzer = Null
               /\ rooms[c].buzzerOrder = <<>>) => r.rooms = rooms
         /\ \A i \in DOMAIN r.rooms[c].players :
              PressAccepted(r.rooms, c, r.rooms[c].players[i].id)

\* a locked room of two players and a connected host whose reset opens it
C16_Witness ==
  \E s \in connected, c \in DOMAIN rooms :
    /\ ConnIsHost(s)
    /\ DirGet(players, s).roomCode = c
    /\ rooms[c].buzzerPressed
    /\ Len(rooms[c].players) = 2
    /\ ~resetBuzzerHandler(s, c).rooms[c].buzzerPressed

\* C17: a join-room under a code that is not live leaves registry, directory
\* and subscriptions as they were and sends the caller one error event,
\* "Room not found", and nothing else.
C17_JoinUnknownRoomRefused ==
  \A s \in connected, c \in Codes \ DOMAIN rooms, playerName \in Names, isHost \in BOOLEAN :
    LET r == joinRoomHandler(s, c, playerName, isHost)
    IN /\ r.rooms = rooms
       /\ r.players = players
       /\ r.subs = subs
       /\ r.out = <<[ev |-> "error", to |-> {s}, room |-> "", data |-> "Room not found"]>>

\* a connection that has a player in a live room asks to join a code that is
\* not live and is refused
C17_Witness ==
  \E s \in connected, c \in Codes \ DOMAIN rooms :
    /\ DirHas(players, s)
    /\ DirGet(players, s).roomCode \in DOMAIN rooms
    /\ ErrorTo(joinRoomHandler(s, c, DirGet(players, s).player.name, TRUE).out, s)

\* the room-state events of the room that the connection has received, in order
Snapshots(s, c) == SelectSeq(wire.inbox[s], LAMBDA e : e.room = c)

\* C18: what a connection has received of a room's room-state events is in
\* the order in which the room went through its states on the server, each
\* event carrying the state the room was in when it was emitted (the state
\* right after the join, press or reset that emitted it); a connected
\* subscriber has missed none of the states since its first event; so no two
\* connections have received two states of a room in opposite orders.
C18_SnapshotsInMutationOrder ==
  \A s \in SocketIds, c \in Codes :
    LET got == Snapshots(s, c)
    IN /\ \A k \in DOMAIN got :
            /\ got[k].seq \in DOMAIN wire.log[c]
            /\ got[k].data = wire.log[c][got[k].seq]
       /\ \A j, k \in DOMAIN got : j < k => got[j].seq <= got[k].seq
       /\ (s \in connected /\ c \in subs[s]) =>
            /\ got # <<>>
            /\ {got[k].seq : k \in DOMAIN got} = got[1].seq .. Len(wire.log[c])
       /\ \A s2 \in SocketIds :
            LET got2 == Snapshots(s2, c)
            IN \A j, k \in DOMAIN got, j2, k2 \in DOMAIN got2 :
                 (got[j].seq = got2[j2].seq /\ got[k].seq = got2[k2].seq
                    /\ got[j].seq < got[k].seq) => (j < k /\ j2 < k2)

\* two connected subscribers of a room that has gone through four states, the
\* third locked and the fourth open again: one has received all four, the
\* other, who joined second, the last three
C18_Witness ==
  \E c \in DOMAIN rooms : \E s1, s2 \in connected :
    /\ c \in subs[s1] \cap subs[s2]
    /\ Len(wire.log[c]) = 4
    /\ wire.log[c][3].buzzerPressed
    /\ ~wire.log[c][4].buzzerPressed
    /\ Len(Snapshots(s1, c)) = 4
    /\ Len(Snapshots(s2, c)) = 3

\* C19 (ack): when the loop is left the handler acks success with the code
\* the loop ended on, never a failure.
C19_SuccessAck ==
  (call.running /\ call.roomCode \notin DOMAIN rooms) =>
    createRoomHandler(call.s, call.teamCount, call.hostName, call.roomCode).out =
      <<[ev |-> "callback", to |-> {call.s}, room |-> "",
         data |-> [success |-> TRUE, roomCode |-> call.roomCode]]>>

\* C19 (retry): a step of a call whose code is in use leaves the registry as
\* it is and the call in progress; the registry changes only by the return of
\* a call whose code is unused, which adds that room and touches no other.
C19_CollisionRetried ==
  /\ (call.running /\ call.roomCode \in DOMAIN rooms) => (rooms' = rooms /\ call'.running)
  /\ rooms' # rooms =>
       /\ call.running
       /\ ~call'.running
       /\ call.roomCode \notin DOMAIN rooms
       /\ DOMAIN rooms' = DOMAIN rooms \cup {call.roomCode}
       /\ \A c \in DOMAIN rooms : rooms'[c] = rooms[c]
       /\ rooms'[call.roomCode].teamCount = call.teamCount
       /\ rooms'[call.roomCode].hostName = call.hostName

\* C19: a createRoom call in progress while some code is unused returns (the
\* generator does not avoid the unused codes for ever); a collision is
\* retried inside the call, is never acked as a failure and never replaces
\* the room it collides with.
C19_CreateRoomTerminates ==
  /\ []C19_SuccessAck
  /\ [][C19_CollisionRetried]_vars
  /\ (call.running /\ Codes \ DOMAIN rooms # {}) ~> ~call.running

\* a call in progress whose drawn code is that of a live room with a player,
\* while another code is unused
C19_Witness ==
  /\ call.running
  /\ call.roomCode \in DOMAIN rooms
  /\ Len(rooms[call.roomCode].players) >= 1
  /\ Codes \ DOMAIN rooms # {}

\* the connection's directory entry names a host of the room
ConnIsHostOf(s, c) ==
  \E i \in DOMAIN players :
    /\ players[i].socketId = s
    /\ players[i].player.isHost
    /\ players[i].roomCode = c

\* C20: a reset-buzzer or delete-room on a live room from a connection whose
\* player is not a host of that room leaves the room's buzzer fields as they
\* were and the room in the registry.
C20_HostOfThisRoomOnly ==
  \A s \in connected, c \in DOMAIN rooms :
    ~ConnIsHostOf(s, c) =>
      /\ c \in DOMAIN resetBuzzerHandler(s, c).rooms
      /\ BuzzerState(resetBuzzerHandler(s, c).rooms[c]) = BuzzerState(rooms[c])
      /\ c \in DOMAIN deleteRoomHandler(s, c).rooms

\* C21: no two players of a room have the same id, so a playerId names at
\* most one player of the room.
C21_UniqueIds ==
  \A c \in DOMAIN rooms : \A i, j \in DOMAIN rooms[c].players :
    i # j => rooms[c].players[i].id # rooms[c].players[j].id

\* C22: a host's delete-room on a live room leaves every other room as it was
\* and keeps, in place and order, every directory entry of a player of
\* another room.
C22_DeleteLeavesOtherRooms ==
  \A s \in connected, c \in DOMAIN rooms :
    ConnIsHost(s) =>
      LET r == deleteRoomHandler(s, c)
      IN /\ DOMAIN r.rooms = DOMAIN rooms \ {c}
         /\ \A c2 \in DOMAIN r.rooms : r.rooms[c2] = rooms[c2]
         /\ SelectSeq(r.players, LAMBDA e : e.roomCode # c) =
              SelectSeq(players, LAMBDA e : e.roomCode # c)

\* C23: buzzerOrder of every live room holds at most one event, and so does
\* the buzzerOrder that any press-buzzer leaves.
C23_LedgerAtMostOne ==
  \A c \in DOMAIN rooms :
    /\ Len(rooms[c].buzzerOrder) <= 1
    /\ \A s \in connected, playerId \in SocketIds :
         Len(pressBuzzerHandler(s, c, playerId).rooms[c].buzzerOrder) <= 1

\* a locked room of two players with one event in its ledger, in which the
\* press of the player who did not buzz first leaves the ledger as it is
C23_Witness ==
  \E c \in DOMAIN rooms : \E i \in DOMAIN rooms[c].players :
    /\ Len(rooms[c].players) = 2
    /\ Len(rooms[c].buzzerOrder) = 1
    /\ rooms[c].buzzerOrder[1].playerName # rooms[c].players[i].name
    /\ rooms[c].buzzerOrder[1].playerId # rooms[c].players[i].id
    /\ \E s \in connected :
         pressBuzzerHandler(s, c, rooms[c].players[i].id).rooms[c].buzzerOrder
           = rooms[c].buzzerOrder

\* C24: in every live room with teamCount >= 1 the sizes of any two teams
\* of 1..teamCount differ by at most one.
C24_TeamsBalanced ==
  \A c \in DOMAIN rooms :
    rooms[c].teamCount >= 1 =>
      \A t1, t2 \in 1..rooms[c].teamCount :
        TeamSize(rooms[c], t1) - TeamSize(rooms[c], t2) <= 1

\* a room of three teams and four players, sizes two, one and one, one of
\* whose players has joined again from another connection and one of whose
\* connections is gone
C24_Witness ==
  \E c \in DOMAIN rooms :
    /\ rooms[c].teamCount = 3
    /\ Len(rooms[c].players) = 4
    /\ TeamSize(rooms[c], 1) = 2
    /\ TeamSize(rooms[c], 2) = 1
    /\ TeamSize(rooms[c], 3) = 1
    /\ \E i \in DOMAIN rooms[c].players : rooms[c].players[i].socketId # rooms[c].players[i].id
    /\ connected # SocketIds

\* C25: in every state and for every payload the handlers of the two
\* implementations leave the same registry, directory and subscriptions and
\* emit the same events to the same recipients in the same order.  The
\* handlers other than press-buzzer and reset-buzzer are the same statements
\* in both files and have one definition here.
C25_SameOnBothServers ==
  \A s \in connected, c \in Codes :
    /\ resetBuzzerOn("ts", s, c) = resetBuzzerOn("js", s, c)
    /\ \A playerId \in SocketIds :
         pressBuzzerOn("ts", s, c, playerId) = pressBuzzerOn("js", s, c, playerId)

====
